---- MODULE Spec2Model ----
(***************************************************************************)
(* Model of the data layer of the mineral-rights record store (src/db.py): *)
(* three identically shaped SQLite tables, the CRUD functions over them    *)
(* and the two stage transfers move_reserve_to_offering and                *)
(* move_offering_to_deal.                                                   *)
(*                                                                         *)
(* Every call opens its own connection (get_conn).  A connection works on  *)
(* a private copy of the database (work) while it holds the write lock and *)
(* publishes it to the committed database (db) at COMMIT; closing a        *)
(* connection without COMMIT discards the copy.  Locks follow SQLite's     *)
(* rollback-journal protocol: SHARED for readers inside a transaction,     *)
(* RESERVED for the one writer, PENDING while the writer waits for the     *)
(* readers to leave.                                                       *)
(***************************************************************************)
EXTENDS Integers, FiniteSets, Sequences, TLC

\* largest id a caller supplies to an insert
MaxId == 1
\* largest number of rows the three tables hold together
MaxRows == 2

\* the two callers; Main is the only one that runs in the sequential specification
Procs == {"p1", "p2"}
Main == "p1"

NULL == "NULL"
\* data.get("id") of a record that has no id
NoId == 0

ALLOWED_TABLES == {"reserve", "offering", "deal"}
\* table selectors a caller may pass: the three tables and a selector in the wrong case
TableArgs == ALLOWED_TABLES \cup {"Reserve"}

\* three of the 25 non-id columns: the mandatory one, a TEXT one, a REAL one
cols_to_update == {"name", "quantity", "area"}

\* declared type of a column in CREATE TABLE
ColumnAffinity(col) == IF col = "area" THEN "REAL" ELSE "TEXT"

\* the value SQLite stores when v is bound to a column: text that looks like
\* a number becomes a real in a REAL column
StoreValue(col, v) ==
    IF ColumnAffinity(col) = "REAL" /\ v = "7" THEN "7.0" ELSE v

\* values a caller supplies for each column
ArgValues(col) ==
    CASE col = "name" -> {NULL, "A"}
      [] col = "quantity" -> {NULL, "q"}
      [] OTHER -> {NULL, "7"}

\* field maps a caller supplies: a bare name, a full record, a record
\* without name, an empty map
DataArgs ==
    {[name |-> "A", quantity |-> NULL, area |-> NULL],
     [name |-> "A", quantity |-> "q", area |-> "7"],
     [name |-> NULL, quantity |-> "q", area |-> "7"],
     [name |-> NULL, quantity |-> NULL, area |-> NULL]}

EmptyTable == [i \in {} |-> NULL]
EmptyDb == [t \in ALLOWED_TABLES |-> EmptyTable]

\* fetchone() of an empty result
NoRow == [name |-> NULL, quantity |-> NULL, area |-> NULL, uid |-> 0]

NoData == [c \in cols_to_update |-> NULL]
\* cols=None of get_record and list_table
NoCols == << >>
NoOp == [name |-> "none", table |-> "reserve", id |-> NoId, data |-> NoData,
         cols |-> NoCols, again |-> FALSE, freed |-> NoId]
NoResult == [kind |-> "none", val |-> 0, exc |-> "", msg |-> ""]
NoCursor == [lastrowid |-> 0, rowcount |-> 0]

Returned(v) == [kind |-> "returned", val |-> v, exc |-> "", msg |-> ""]
Raised(e, m) == [kind |-> "raised", val |-> 0, exc |-> e, msg |-> m]

ErrInvalidTable == Raised("ValueError", "table must be reserve/offering/deal")
ErrNotFound == Raised("ValueError", "no record with this id")
ErrUnique == Raised("IntegrityError", "UNIQUE constraint failed")
ErrNotNull == Raised("IntegrityError", "NOT NULL constraint failed")
ErrKey == Raised("KeyError", "id")
ErrBusy == Raised("OperationalError", "database is locked")
ErrStorage == Raised("OperationalError", "disk I/O error")
ErrPrint == Raised("UnicodeEncodeError", "stdout cannot encode the message")

\* outcomes of a step of a transfer at which a fault may be injected
Outcomes == {"ok", "fault"}

VARIABLES
    db,       \* the committed database: table -> (id -> row)
    work,     \* per caller: the uncommitted copy its connection writes to
    lock,     \* per caller: the lock its connection holds
    pc,       \* per caller: position in the function it runs
    op,       \* per caller: the function called and its arguments
    row,      \* per caller: the local variable row of a transfer
    cur,      \* per caller: cursor attributes lastrowid and rowcount
    result,   \* per caller: what the function returned or raised
    pre,      \* per caller: the committed database when the call started
    conn,     \* per caller: the connection of the call: none, open or closed
    fetched   \* per caller: the rows the call hands back

vars == <<db, work, lock, pc, op, row, cur, result, pre, conn, fetched>>

----------------------------------------------------------------------------
\* Tables

RowKeys(d) == UNION {{<<t, i>> : i \in DOMAIN d[t]} : t \in ALLOWED_TABLES}
NRows(d) == Cardinality(RowKeys(d))

MaxRowid(tab) ==
    IF DOMAIN tab = {} THEN 0
    ELSE CHOOSE m \in DOMAIN tab : \A i \in DOMAIN tab : i <= m

\* a table that leaves a gap after its largest id
NextRowid_skip(tab) == MaxRowid(tab) + 2

\* a table that hands out its largest id again
NextRowid_reuse(tab) == IF DOMAIN tab = {} THEN 1 ELSE MaxRowid(tab)

\* a table that fills the lowest gap in its ids
NextRowid_gap(tab) == CHOOSE i \in 1..(MaxRowid(tab) + 1) :
                          i \notin DOMAIN tab /\ \A j \in 1..(i - 1) : j \in DOMAIN tab

NextRowid(tab) == MaxRowid(tab) + 1

InsertRow(tab, i, r) ==
    [j \in DOMAIN tab \cup {i} |-> IF j = i THEN r ELSE tab[j]]

\* a DELETE that removes nothing
DeleteRow_keep(tab, i) == tab

\* DELETE FROM <table> without its WHERE clause
DeleteRow_all(tab, i) == EmptyTable

DeleteRow(tab, i) == [j \in DOMAIN tab \ {i} |-> tab[j]]

\* a SELECT that ignores its WHERE clause
fetchone_any(tab, i) == IF DOMAIN tab = {} THEN NoRow ELSE tab[MaxRowid(tab)]

fetchone(tab, i) == IF i \in DOMAIN tab THEN tab[i] ELSE NoRow

\* a table without its primary key
UniqueViolation_off(tab, i) == FALSE

UniqueViolation(tab, i) == i # NoId /\ i \in DOMAIN tab

\* a rowcount that does not look at the table
RowCount_one(tab, i) == 1

RowCount(tab, i) == IF i \in DOMAIN tab THEN 1 ELSE 0

\* the tag of a logical record: the smallest one no live row carries
FreshUid(d) ==
    CHOOSE u \in 1..(NRows(d) + 1) :
        /\ \A k \in RowKeys(d) : d[k[1]][k[2]].uid # u
        /\ \A v \in 1..(u - 1) : \E k \in RowKeys(d) : d[k[1]][k[2]].uid = v

\* columns that keep a bound value as it is given
StoredRow_text(data, u) ==
    [name |-> data.name, quantity |-> data.quantity, area |-> data.area, uid |-> u]

\* the row an INSERT or UPDATE stores for the bound values
StoredRow(data, u) ==
    [name |-> StoreValue("name", data.name),
     quantity |-> StoreValue("quantity", data.quantity),
     area |-> StoreValue("area", data.area),
     uid |-> u]

----------------------------------------------------------------------------
\* Locks

CanRead(p) == \A q \in Procs \ {p} : lock[q] # "pending"
CanReserve(p) == \A q \in Procs \ {p} : lock[q] \notin {"reserved", "pending"}
\* a COMMIT that does not wait for the readers of the file
CanCommit_nowait(p) == TRUE

CanCommit(p) == \A q \in Procs \ {p} : lock[q] # "shared"

\* a database file without tables
NoSchema == [t \in {} |-> EmptyTable]

\* DROP TABLE IF EXISTS; CREATE TABLE
CreateTable_fresh(d, t) ==
    [x \in DOMAIN d \cup {t} |-> IF x = t THEN EmptyTable ELSE d[x]]

\* CREATE TABLE IF NOT EXISTS
CreateTable(d, t) ==
    IF t \in DOMAIN d
    THEN d
    ELSE [x \in DOMAIN d \cup {t} |-> IF x = t THEN EmptyTable ELSE d[x]]

\* the three CREATE TABLE IF NOT EXISTS statements of init_db, in their order
CreateTables(d) == CreateTable(CreateTable(CreateTable(d, "reserve"), "offering"), "deal")

\* on_startup: init_db() on a new database file
Init ==
    /\ db = CreateTables(NoSchema)
    /\ work = [p \in Procs |-> EmptyDb]
    /\ lock = [p \in Procs |-> "none"]
    /\ pc = [p \in Procs |-> "idle"]
    /\ op = [p \in Procs |-> NoOp]
    /\ row = [p \in Procs |-> NoRow]
    /\ cur = [p \in Procs |-> NoCursor]
    /\ result = [p \in Procs |-> NoResult]
    /\ pre = [p \in Procs |-> EmptyDb]
    /\ conn = [p \in Procs |-> "none"]
    /\ fetched = [p \in Procs |-> << >>]


----------------------------------------------------------------------------
\* Entering and leaving a function

IsMove(o) == o.name \in {"move_reserve_to_offering", "move_offering_to_deal"}
MoveSource(name) == IF name = "move_reserve_to_offering" THEN "reserve" ELSE "offering"
\* a second transfer that puts the row back into reserve
MoveDest_back(name) == IF name = "move_reserve_to_offering" THEN "offering" ELSE "reserve"

MoveDest(name) == IF name = "move_reserve_to_offering" THEN "offering" ELSE "deal"

\* largest rowid a table is let to assign: a call that would go beyond it is
\* not made
IdLimit == MaxId + MaxRows

\* ids a caller passes to update, delete and transfer: the ids it may have
\* supplied itself and the ids it sees in the table
KnownIds(t) == (1..MaxId) \cup DOMAIN db[t]

\* a selector that compares equal without regard to case
ValidTable_anycase(table) == table \in ALLOWED_TABLES \cup {"Reserve"}

\* if table not in {"reserve", "offering", "deal"}: raise ValueError
ValidTable(table) == table \in ALLOWED_TABLES

\* the call of a function with a table selector: the selector is checked
\* before a connection is opened
Enter(p, o) ==
    /\ op' = [op EXCEPT ![p] = o]
    /\ pre' = [pre EXCEPT ![p] = db]
    /\ row' = [row EXCEPT ![p] = NoRow]
    /\ cur' = [cur EXCEPT ![p] = NoCursor]
    /\ fetched' = [fetched EXCEPT ![p] = << >>]
    /\ IF ValidTable(o.table)
       THEN /\ pc' = [pc EXCEPT ![p] = IF IsMove(o) THEN "select" ELSE "execute"]
            /\ result' = [result EXCEPT ![p] = NoResult]
            /\ conn' = [conn EXCEPT ![p] = "open"]
       ELSE /\ pc' = [pc EXCEPT ![p] = "done"]
            /\ result' = [result EXCEPT ![p] = ErrInvalidTable]
            /\ conn' = [conn EXCEPT ![p] = "none"]
    /\ UNCHANGED <<db, work, lock>>

\* a function that forgets conn.close()
Leave_open(p, res) ==
    /\ pc' = [pc EXCEPT ![p] = "done"]
    /\ result' = [result EXCEPT ![p] = res]
    /\ UNCHANGED <<lock, work, conn>>

\* the function returns or raises; conn.close() in its finally clause drops
\* the lock and whatever the connection has not committed
Leave(p, res) ==
    /\ pc' = [pc EXCEPT ![p] = "done"]
    /\ result' = [result EXCEPT ![p] = res]
    /\ lock' = [lock EXCEPT ![p] = "none"]
    /\ work' = [work EXCEPT ![p] = EmptyDb]
    /\ conn' = [conn EXCEPT ![p] = "closed"]

\* a statement has written to the connection's private copy
Written(p, d, c, next) ==
    /\ work' = [work EXCEPT ![p] = d]
    /\ lock' = [lock EXCEPT ![p] = "reserved"]
    /\ cur' = [cur EXCEPT ![p] = c]
    /\ pc' = [pc EXCEPT ![p] = next]
    /\ UNCHANGED <<db, op, row, result, pre, conn, fetched>>

----------------------------------------------------------------------------
\* add_full_record and add_record

\* the insert would put one more row into the tables (the tables are kept
\* to MaxRows rows: a call that would go beyond is not made)
AddsRow(table, id, name) ==
    /\ table \in ALLOWED_TABLES
    /\ name # NULL
    /\ id \notin DOMAIN db[table]

add_full_record_call(p, table, id, data) ==
    /\ NRows(db) < MaxRows \/ ~AddsRow(table, id, data.name)
    /\ id = NoId /\ table \in ALLOWED_TABLES => NextRowid(db[table]) <= IdLimit
    /\ Enter(p, [name |-> "add_full_record", table |-> table, id |-> id,
                 data |-> data, cols |-> NoCols, again |-> FALSE, freed |-> NoId])

add_record_call(p, table, id, name, quantity) ==
    /\ NRows(db) < MaxRows \/ ~AddsRow(table, id, name)
    /\ Enter(p, [name |-> "add_record", table |-> table, id |-> id,
                 data |-> [NoData EXCEPT !.name = name, !.quantity = quantity],
                 cols |-> NoCols, again |-> FALSE, freed |-> NoId])

\* cur.execute(INSERT ...): NOT NULL is checked before the primary key; an
\* absent id lets the table assign the rowid
insert_execute(p) ==
    /\ pc[p] = "execute"
    /\ op[p].name \in {"add_full_record", "add_record"}
    /\ CanReserve(p)
    /\ LET t == op[p].table
           tab == db[t]
           i == IF op[p].id = NoId THEN NextRowid(tab) ELSE op[p].id
       IN  IF op[p].data.name = NULL
           THEN Leave(p, ErrNotNull) /\ UNCHANGED <<db, op, row, cur, pre, fetched>>
           ELSE IF UniqueViolation(tab, op[p].id)
           THEN Leave(p, ErrUnique) /\ UNCHANGED <<db, op, row, cur, pre, fetched>>
           ELSE Written(p, [db EXCEPT ![t] = InsertRow(tab, i, StoredRow(op[p].data, FreshUid(db)))],
                        [lastrowid |-> i, rowcount |-> 1], "commit")

\* conn.commit() and the return statement: add_full_record returns
\* int(data["id"]), add_record returns id_
insert_commit(p) ==
    /\ pc[p] = "commit"
    /\ op[p].name \in {"add_full_record", "add_record"}
    /\ CanCommit(p)
    /\ db' = work[p]
    /\ Leave(p, IF op[p].id = NoId THEN ErrKey ELSE Returned(op[p].id))
    /\ UNCHANGED <<op, row, cur, pre, fetched>>

----------------------------------------------------------------------------
\* update_full_record and delete_record

update_full_record_call(p, table, id, data) ==
    /\ id \in (IF table \in ALLOWED_TABLES THEN KnownIds(table) ELSE 1..MaxId)
    /\ Enter(p, [name |-> "update_full_record", table |-> table, id |-> id,
                 data |-> data, cols |-> NoCols, again |-> FALSE, freed |-> NoId])

delete_record_call(p, table, id) ==
    /\ id \in (IF table \in ALLOWED_TABLES THEN KnownIds(table) ELSE 1..MaxId)
    /\ Enter(p, [name |-> "delete_record", table |-> table, id |-> id,
                 data |-> NoData, cols |-> NoCols,
                 again |-> /\ IsMove(op[p])
                           /\ result[p].kind = "returned"
                           /\ table = MoveDest(op[p].name)
                           /\ id = result[p].val,
                 freed |-> NoId])

\* cur.execute(UPDATE ... WHERE id = ?): every non-id column is set; the
\* NOT NULL check runs for the row the WHERE clause selects
update_execute(p) ==
    /\ pc[p] = "execute"
    /\ op[p].name = "update_full_record"
    /\ CanReserve(p)
    /\ LET t == op[p].table
           tab == db[t]
           i == op[p].id
       IN  IF i \notin DOMAIN tab
           THEN Written(p, db, [lastrowid |-> 0, rowcount |-> RowCount(tab, i)], "commit")
           ELSE IF op[p].data.name = NULL
           THEN Leave(p, ErrNotNull) /\ UNCHANGED <<db, op, row, cur, pre, fetched>>
           ELSE Written(p, [db EXCEPT ![t] = InsertRow(tab, i, StoredRow(op[p].data, tab[i].uid))],
                        [lastrowid |-> 0, rowcount |-> RowCount(tab, i)], "commit")

\* cur.execute(DELETE ... WHERE id = ?)
delete_execute(p) ==
    /\ pc[p] = "execute"
    /\ op[p].name = "delete_record"
    /\ CanReserve(p)
    /\ LET t == op[p].table
           tab == db[t]
           i == op[p].id
       IN  Written(p, [db EXCEPT ![t] = DeleteRow(tab, i)],
                   [lastrowid |-> 0, rowcount |-> RowCount(tab, i)], "commit")

\* conn.commit(); return cur.rowcount
rowcount_commit(p) ==
    /\ pc[p] = "commit"
    /\ op[p].name \in {"update_full_record", "delete_record"}
    /\ CanCommit(p)
    /\ db' = work[p]
    /\ Leave(p, Returned(cur[p].rowcount))
    /\ UNCHANGED <<op, row, cur, pre, fetched>>

----------------------------------------------------------------------------
\* get_record, list_table and init_db

\* the column order the three tables and the callers share
ALL_COLUMNS == <<"id", "name", "area", "quantity">>

\* the column list list_table takes when the caller gives none
DefaultListCols == <<"id", "name", "area", "quantity">>

\* the column list view_table passes to list_table
ViewCols == <<"id", "name">>

\* the row r of id i in a result set: the values of the selected columns, in
\* their order
RowTuple(r, i, cols) ==
    [k \in 1..Len(cols) |-> IF cols[k] = "id" THEN i ELSE r[cols[k]]]

\* ORDER BY id
RECURSIVE OrderById(_)
OrderById(S) ==
    IF S = {} THEN << >>
    ELSE LET m == CHOOSE x \in S : \A y \in S : x <= y
         IN  <<m>> \o OrderById(S \ {m})

\* a result set read from the end of the index
fetchall_desc(tab, cols) ==
    LET order == OrderById(DOMAIN tab)
    IN  [k \in 1..Len(order) |-> RowTuple(tab[order[Len(order) + 1 - k]], order[Len(order) + 1 - k], cols)]

\* cur.fetchall() of SELECT cols FROM table ORDER BY id
fetchall(tab, cols) ==
    LET order == OrderById(DOMAIN tab)
    IN  [k \in 1..Len(order) |-> RowTuple(tab[order[k]], order[k], cols)]

get_record_call(p, table, id) ==
    /\ id \in (IF table \in ALLOWED_TABLES THEN KnownIds(table) ELSE 1..MaxId)
    /\ Enter(p, [name |-> "get_record", table |-> table, id |-> id,
                 data |-> NoData, cols |-> NoCols, again |-> FALSE, freed |-> NoId])

\* cols = cols or ALL_COLUMNS; cur.execute(SELECT ... WHERE id = ?);
\* row = cur.fetchone(); if row is None: raise ValueError;
\* return dict(zip(cols, row))
get_record_execute(p) ==
    /\ pc[p] = "execute"
    /\ op[p].name = "get_record"
    /\ CanRead(p)
    /\ LET r == fetchone(db[op[p].table], op[p].id)
           cols == IF op[p].cols = NoCols THEN ALL_COLUMNS ELSE op[p].cols
       IN  IF r = NoRow
           THEN Leave(p, ErrNotFound) /\ UNCHANGED fetched
           ELSE /\ fetched' = [fetched EXCEPT ![p] = <<RowTuple(r, op[p].id, cols)>>]
                /\ Leave(p, Returned(1))
    /\ UNCHANGED <<db, op, row, cur, pre>>

list_table_call(p, table, cols) ==
    Enter(p, [name |-> "list_table", table |-> table, id |-> NoId,
              data |-> NoData, cols |-> cols, again |-> FALSE, freed |-> NoId])

\* if cols is None: cols = [...]; cur.execute(SELECT ... ORDER BY id);
\* return cur.fetchall()
list_table_execute(p) ==
    /\ pc[p] = "execute"
    /\ op[p].name = "list_table"
    /\ CanRead(p)
    /\ LET tab == db[op[p].table]
           cols == IF op[p].cols = NoCols THEN DefaultListCols ELSE op[p].cols
       IN  /\ fetched' = [fetched EXCEPT ![p] = fetchall(tab, cols)]
           /\ Leave(p, Returned(Len(fetchall(tab, cols))))
    /\ UNCHANGED <<db, op, row, cur, pre>>

init_db_call(p) ==
    Enter(p, [NoOp EXCEPT !.name = "init_db"])

\* the three cur.execute(CREATE TABLE IF NOT EXISTS ...); conn.commit()
init_db_execute(p) ==
    /\ pc[p] = "execute"
    /\ op[p].name = "init_db"
    /\ CanReserve(p)
    /\ db' = CreateTables(db)
    /\ Leave(p, Returned(0))
    /\ UNCHANGED <<op, row, cur, pre, fetched>>

----------------------------------------------------------------------------
\* move_reserve_to_offering and move_offering_to_deal

\* an INSERT whose column list misses area
InsertValues_drop(r) ==
    [name |-> StoreValue("name", r.name),
     quantity |-> StoreValue("quantity", r.quantity),
     area |-> NULL,
     uid |-> r.uid]

\* the values bound to INSERT INTO <destination> (cols) VALUES (?,...,?):
\* the columns of the SELECT and of the INSERT are listed in the same order
InsertValues(r) ==
    [name |-> StoreValue("name", r.name),
     quantity |-> StoreValue("quantity", r.quantity),
     area |-> StoreValue("area", r.area),
     uid |-> r.uid]

\* conn = get_conn(); cur.execute("BEGIN"): a deferred transaction takes no lock
move_call(p, name, id) ==
    /\ id \in KnownIds(MoveSource(name))
    /\ NextRowid(db[MoveDest(name)]) <= IdLimit
    /\ Enter(p, [name |-> name, table |-> MoveSource(name), id |-> id,
                 data |-> NoData, cols |-> NoCols,
                 again |-> /\ op[p].name = name
                           /\ op[p].id = id
                           /\ result[p].kind = "returned",
                 freed |-> IF /\ op[p].name = "delete_record"
                              /\ op[p].again
                              /\ op[p].table = MoveDest(name)
                              /\ result[p].kind = "returned"
                           THEN op[p].id ELSE NoId])

\* cur.execute(SELECT ... WHERE id = ?); row = cur.fetchone();
\* if row is None: conn.rollback(); raise ValueError
move_select(p) ==
    /\ pc[p] = "select"
    /\ CanRead(p)
    /\ LET r == fetchone(db[MoveSource(op[p].name)], op[p].id)
       IN  IF r = NoRow
           THEN Leave(p, ErrNotFound) /\ UNCHANGED <<db, op, row, cur, pre, fetched>>
           ELSE /\ row' = [row EXCEPT ![p] = r]
                /\ lock' = [lock EXCEPT ![p] = "shared"]
                /\ pc' = [pc EXCEPT ![p] = "insert"]
                /\ UNCHANGED <<db, work, op, cur, result, pre, conn, fetched>>

\* cur.execute(INSERT INTO <destination> ...); new id = cur.lastrowid.
\* A failure goes to the except clause: conn.rollback(); raise
move_insert(p, outcome) ==
    /\ pc[p] = "insert"
    /\ CanReserve(p)
    /\ LET t == MoveDest(op[p].name)
           i == NextRowid(db[t])
       IN  IF outcome = "fault"
           THEN Leave(p, ErrStorage) /\ UNCHANGED <<db, op, row, cur, pre, fetched>>
           ELSE Written(p, [db EXCEPT ![t] = InsertRow(db[t], i, InsertValues(row[p]))],
                        [lastrowid |-> i, rowcount |-> 1], "delete")

\* cur.execute(DELETE FROM <source> WHERE id = ?)
move_delete(p, outcome) ==
    /\ pc[p] = "delete"
    /\ LET t == MoveSource(op[p].name)
       IN  IF outcome = "fault"
           THEN Leave(p, ErrStorage) /\ UNCHANGED <<db, op, row, cur, pre, fetched>>
           ELSE Written(p, [work[p] EXCEPT ![t] = DeleteRow(work[p][t], op[p].id)],
                        [cur[p] EXCEPT !.rowcount = RowCount(work[p][t], op[p].id)],
                        "commit")

\* conn.commit(): a failed commit is rolled back by the except clause
move_commit(p, outcome) ==
    /\ pc[p] = "commit"
    /\ IsMove(op[p])
    /\ CanCommit(p)
    /\ IF outcome = "fault"
       THEN Leave(p, ErrStorage) /\ UNCHANGED <<db, op, row, cur, pre, fetched>>
       ELSE /\ db' = work[p]
            /\ lock' = [lock EXCEPT ![p] = "none"]
            /\ work' = [work EXCEPT ![p] = EmptyDb]
            /\ pc' = [pc EXCEPT ![p] = "print"]
            /\ UNCHANGED <<op, row, cur, result, pre, conn, fetched>>

\* print(...); return the new id.  The commit is done: the rollback of the
\* except clause that a failed print reaches has nothing to undo
move_print(p, outcome) ==
    /\ pc[p] = "print"
    /\ Leave(p, IF outcome = "fault" THEN ErrPrint ELSE Returned(cur[p].lastrowid))
    /\ UNCHANGED <<db, op, row, cur, pre, fetched>>

----------------------------------------------------------------------------
\* Lock conflicts between two connections

\* a connection that holds SHARED and asks for RESERVED while another
\* connection has it gets SQLITE_BUSY at once
move_insert_busy(p) ==
    /\ pc[p] = "insert"
    /\ ~CanReserve(p)
    /\ Leave(p, ErrBusy)
    /\ UNCHANGED <<db, op, row, cur, pre, fetched>>

\* COMMIT with a reader still inside: the writer takes PENDING and waits
commit_pending(p) ==
    /\ pc[p] = "commit"
    /\ lock[p] = "reserved"
    /\ ~CanCommit(p)
    /\ lock' = [lock EXCEPT ![p] = "pending"]
    /\ UNCHANGED <<db, work, pc, op, row, cur, result, pre, conn, fetched>>

\* the busy handler gives up after the connection's timeout
busy_timeout(p) ==
    /\ \/ pc[p] = "select" /\ ~CanRead(p)
       \/ pc[p] = "execute" /\ op[p].name \in {"get_record", "list_table"} /\ ~CanRead(p)
       \/ pc[p] = "execute" /\ op[p].name \notin {"get_record", "list_table"} /\ ~CanReserve(p)
       \/ pc[p] = "commit" /\ ~CanCommit(p)
    /\ Leave(p, ErrBusy)
    /\ UNCHANGED <<db, op, row, cur, pre, fetched>>

----------------------------------------------------------------------------
\* One caller, one call at a time

MoveNames == {"move_reserve_to_offering", "move_offering_to_deal"}

Callable(p) == pc[p] = "idle"

IdArgs == 1..IdLimit

\* the caller takes the result; it remembers the transfer it has just made
\* and the delete of the row that transfer has made
Return(p) ==
    /\ pc[p] = "done"
    /\ pc' = [pc EXCEPT ![p] = "idle"]
    /\ IF /\ result[p].kind = "returned"
          /\ IsMove(op[p]) \/ (op[p].name = "delete_record" /\ op[p].again)
       THEN UNCHANGED <<op, result>>
       ELSE /\ op' = [op EXCEPT ![p] = NoOp]
            /\ result' = [result EXCEPT ![p] = NoResult]
    /\ pre' = [pre EXCEPT ![p] = EmptyDb]
    /\ row' = [row EXCEPT ![p] = NoRow]
    /\ cur' = [cur EXCEPT ![p] = NoCursor]
    /\ conn' = [conn EXCEPT ![p] = "none"]
    /\ fetched' = [fetched EXCEPT ![p] = << >>]
    /\ UNCHANGED <<db, work, lock>>

Next ==
    \/ \E t \in TableArgs, i \in 0..MaxId, d \in DataArgs :
          Callable(Main) /\ add_full_record_call(Main, t, i, d)
    \/ \E t \in TableArgs, i \in 1..MaxId, q \in ArgValues("quantity") :
          Callable(Main) /\ add_record_call(Main, t, i, "A", q)
    \/ \E t \in TableArgs, i \in IdArgs, d \in DataArgs :
          Callable(Main) /\ update_full_record_call(Main, t, i, d)
    \/ \E t \in TableArgs, i \in IdArgs :
          Callable(Main) /\ delete_record_call(Main, t, i)
    \/ \E n \in MoveNames, i \in IdArgs :
          Callable(Main) /\ move_call(Main, n, i)
    \/ \E t \in TableArgs, i \in IdArgs :
          Callable(Main) /\ get_record_call(Main, t, i)
    \/ \E t \in TableArgs, c \in {NoCols, ViewCols} :
          Callable(Main) /\ list_table_call(Main, t, c)
    \/ Callable(Main) /\ init_db_call(Main)
    \/ get_record_execute(Main)
    \/ list_table_execute(Main)
    \/ init_db_execute(Main)
    \/ insert_execute(Main)
    \/ insert_commit(Main)
    \/ update_execute(Main)
    \/ delete_execute(Main)
    \/ rowcount_commit(Main)
    \/ move_select(Main)
    \/ \E o \in Outcomes : move_insert(Main, o)
    \/ \E o \in Outcomes : move_delete(Main, o)
    \/ \E o \in Outcomes : move_commit(Main, o)
    \/ \E o \in Outcomes : move_print(Main, o)
    \/ Return(Main)

Spec == Init /\ [][Next]_vars

----------------------------------------------------------------------------
\* Two callers at once, one call each, on a database filled by earlier calls

SeedFull == [name |-> "A", quantity |-> "q", area |-> "7.0", uid |-> 1]
SeedBare == [name |-> "A", quantity |-> NULL, area |-> NULL, uid |-> 2]

\* databases left by add_full_record("reserve", {id: 1, ...}) alone and
\* followed by add_full_record("offering", {id: 1, ...})
ConcDbs ==
    {[EmptyDb EXCEPT !["reserve"] = InsertRow(EmptyTable, 1, SeedFull)],
     [EmptyDb EXCEPT !["reserve"] = InsertRow(EmptyTable, 1, SeedFull),
                     !["offering"] = InsertRow(EmptyTable, 1, SeedBare)]}

ConcInit ==
    /\ db \in ConcDbs
    /\ work = [p \in Procs |-> EmptyDb]
    /\ lock = [p \in Procs |-> "none"]
    /\ pc = [p \in Procs |-> "idle"]
    /\ op = [p \in Procs |-> NoOp]
    /\ row = [p \in Procs |-> NoRow]
    /\ cur = [p \in Procs |-> NoCursor]
    /\ result = [p \in Procs |-> NoResult]
    /\ pre = [p \in Procs |-> EmptyDb]
    /\ conn = [p \in Procs |-> "none"]
    /\ fetched = [p \in Procs |-> << >>]

ConcStep(p) ==
    \/ \E t \in ALLOWED_TABLES, i \in IdArgs, d \in DataArgs :
          Callable(p) /\ update_full_record_call(p, t, i, d)
    \/ \E t \in ALLOWED_TABLES, i \in IdArgs :
          Callable(p) /\ delete_record_call(p, t, i)
    \/ \E n \in MoveNames, i \in IdArgs :
          Callable(p) /\ move_call(p, n, i)
    \/ \E t \in TableArgs, i \in IdArgs :
          Callable(p) /\ get_record_call(p, t, i)
    \/ \E t \in ALLOWED_TABLES :
          Callable(p) /\ list_table_call(p, t, ViewCols)
    \/ \E t \in ALLOWED_TABLES, i \in 1..MaxId :
          Callable(p) /\ add_record_call(p, t, i, "A", NULL)
    \/ get_record_execute(p)
    \/ list_table_execute(p)
    \/ insert_execute(p)
    \/ insert_commit(p)
    \/ update_execute(p)
    \/ delete_execute(p)
    \/ rowcount_commit(p)
    \/ move_select(p)
    \/ move_insert(p, "ok")
    \/ move_delete(p, "ok")
    \/ move_commit(p, "ok")
    \/ move_print(p, "ok")
    \/ move_insert_busy(p)
    \/ commit_pending(p)
    \/ busy_timeout(p)

ConcNext == \E p \in Procs : ConcStep(p)

ConcSpec == ConcInit /\ [][ConcNext]_vars

\* the same callers, each of which takes its next step when it can: a
\* statement runs to its end, and a connection that waits for a lock gets it
\* or gives up when its timeout is over
ConcFairSpec ==
    /\ ConcSpec
    /\ \A p \in Procs : WF_vars(pc[p] # "idle" /\ ConcStep(p))

----------------------------------------------------------------------------
\* Properties

Done(p) == pc[p] = "done"
Src(p) == MoveSource(op[p].name)
Dst(p) == MoveDest(op[p].name)
MoveDone(p) == Done(p) /\ IsMove(op[p])
MoveReturned(p) == MoveDone(p) /\ result[p].kind = "returned"
SameFields(r1, r2) == \A c \in cols_to_update : r1[c] = r2[c]
Uids(d) == {d[k[1]][k[2]].uid : k \in RowKeys(d)}
Copies(d, u) == {k \in RowKeys(d) : d[k[1]][k[2]].uid = u}

\* C1: a transfer that fails after it has read the source row leaves the
\* source row as it was and adds no row to the destination
C1_FailedTransferChangesNothing ==
    \A p \in Procs :
        (MoveDone(p) /\ result[p].kind = "raised" /\ op[p].id \in DOMAIN pre[p][Src(p)])
        => /\ op[p].id \in DOMAIN db[Src(p)]
           /\ db[Src(p)][op[p].id] = pre[p][Src(p)][op[p].id]
           /\ db[Dst(p)] = pre[p][Dst(p)]

\* C2: after every step each logical record that is in the tables is there
\* exactly once, and a record leaves the tables only by delete_record
C2_OneLiveCopy ==
    [][/\ \A u \in Uids(db') : Cardinality(Copies(db', u)) = 1
       /\ \A u \in Uids(db) \ Uids(db') :
             \E p \in Procs : /\ op[p].name = "delete_record"
                              /\ pc[p] = "commit"
                              /\ pc'[p] = "done"]_vars

C2_Witness ==
    \E p \in Procs :
        /\ MoveReturned(p)
        /\ op[p].id \in DOMAIN pre[p][Src(p)]
        /\ Copies(db, pre[p][Src(p)][op[p].id].uid) = {<<Dst(p), result[p].val>>}
        /\ NRows(db) = 2

\* C3 as stated: the id a successful transfer returns differs from the source id
C3_NewIdNeverSourceId ==
    \A p \in Procs : MoveReturned(p) => result[p].val # op[p].id

\* C3 as amended: the id a successful transfer returns equals the source id
\* exactly when the source id is one more than the largest id of the
\* destination (1 for an empty destination)
C3_NewIdFromDestination ==
    \A p \in Procs :
        MoveReturned(p) =>
            (result[p].val = op[p].id <=> op[p].id = MaxRowid(pre[p][Dst(p)]) + 1)

C3_Witness ==
    \E p \in Procs :
        /\ MoveReturned(p)
        /\ pre[p][Dst(p)] # EmptyTable
        /\ result[p].val # op[p].id

\* C4: the id a successful transfer returns is the id of no row that was in
\* the destination, whose rows all stay as they were; it differs from the
\* source id when the destination had a row under the source id
C4_NoDestinationRowReplaced ==
    \A p \in Procs :
        MoveReturned(p) =>
            /\ result[p].val \notin DOMAIN pre[p][Dst(p)]
            /\ \A i \in DOMAIN pre[p][Dst(p)] :
                  i \in DOMAIN db[Dst(p)] /\ db[Dst(p)][i] = pre[p][Dst(p)][i]
            /\ op[p].id \in DOMAIN pre[p][Dst(p)] => result[p].val # op[p].id

C4_Witness ==
    \E p \in Procs :
        /\ MoveReturned(p)
        /\ op[p].id \in DOMAIN pre[p][Dst(p)]

\* C5: after a successful transfer the destination row under the returned id
\* has the non-id fields of the source row, and the source id is gone from
\* the source table
C5_FieldsPreserved ==
    \A p \in Procs :
        MoveReturned(p) =>
            /\ result[p].val \in DOMAIN db[Dst(p)]
            /\ op[p].id \in DOMAIN pre[p][Src(p)]
            /\ SameFields(db[Dst(p)][result[p].val], pre[p][Src(p)][op[p].id])
            /\ op[p].id \notin DOMAIN db[Src(p)]

C5_Witness ==
    \E p \in Procs :
        /\ MoveReturned(p)
        /\ db[Dst(p)][result[p].val].area = "7.0"
        /\ \E i \in DOMAIN db[Dst(p)] : db[Dst(p)][i].area = NULL

\* C6: a transfer of an id that has no row in the source fails with NotFound
\* and changes no table; so does the transfer that repeats a successful one
C6_MissingSourceNotFound ==
    \A p \in Procs :
        (MoveDone(p) /\ (op[p].id \notin DOMAIN pre[p][Src(p)] \/ op[p].again))
        => result[p] = ErrNotFound /\ db = pre[p]

C6_Witness ==
    \E p \in Procs :
        /\ MoveDone(p)
        /\ op[p].again
        /\ result[p] = ErrNotFound
        /\ pre[p][Dst(p)] # EmptyTable

\* C7: of two transfers that race on one source row exactly one succeeds,
\* the destination gains exactly one row and the other transfer gets NotFound
Racing(p, q) ==
    /\ p # q
    /\ MoveDone(p) /\ MoveDone(q)
    /\ op[p].name = op[q].name
    /\ op[p].id = op[q].id
    /\ op[p].id \in DOMAIN pre[p][Src(p)]
    /\ op[q].id \in DOMAIN pre[q][Src(q)]

C7_RaceLoserNotFound ==
    \A p, q \in Procs :
        Racing(p, q) =>
            /\ ~(result[p].kind = "returned" /\ result[q].kind = "returned")
            /\ Cardinality(DOMAIN db[Dst(p)]) = Cardinality(DOMAIN pre[p][Dst(p)]) + 1
            /\ result[p].kind = "returned" => result[q] = ErrNotFound

\* C8: an insert of a record under an id its table already has fails with
\* the UNIQUE error and changes nothing; under an id its table does not
\* have it succeeds, whatever ids the other tables hold
IsInsert(o) == o.name \in {"add_full_record", "add_record"}

C8_DuplicateIdPerTable ==
    \A p \in Procs :
        (/\ Done(p) /\ IsInsert(op[p])
         /\ op[p].table \in ALLOWED_TABLES
         /\ op[p].id # NoId
         /\ op[p].data.name # NULL)
        => IF op[p].id \in DOMAIN pre[p][op[p].table]
           THEN result[p] = ErrUnique /\ db = pre[p]
           ELSE /\ result[p] = Returned(op[p].id)
                /\ op[p].id \in DOMAIN db[op[p].table]
                /\ \A t \in ALLOWED_TABLES \ {op[p].table} : db[t] = pre[p][t]
                /\ \A i \in DOMAIN pre[p][op[p].table] :
                      i \in DOMAIN db[op[p].table]
                      /\ db[op[p].table][i] = pre[p][op[p].table][i]

C8_Witness ==
    \E p \in Procs :
        /\ Done(p) /\ IsInsert(op[p])
        /\ result[p] = ErrUnique
        /\ \E t \in ALLOWED_TABLES \ {op[p].table} : op[p].id \in DOMAIN db[t]

\* C9: add_full_record of a record without id or without name fails and
\* leaves the tables as they were
C9_MissingIdOrNameChangesNothing ==
    \A p \in Procs :
        (/\ Done(p) /\ op[p].name = "add_full_record"
         /\ op[p].table \in ALLOWED_TABLES
         /\ (op[p].id = NoId \/ op[p].data.name = NULL))
        => result[p].kind = "raised" /\ db = pre[p]

\* C10 as stated: delete_record and update_full_record return 0 and change
\* nothing for an id the table does not have, and return 1 for an id it has
IsRowcountOp(o) == o.name \in {"update_full_record", "delete_record"}

C10_AffectedCount ==
    \A p \in Procs :
        (Done(p) /\ IsRowcountOp(op[p]) /\ op[p].table \in ALLOWED_TABLES)
        => IF op[p].id \notin DOMAIN pre[p][op[p].table]
           THEN result[p] = Returned(0) /\ db = pre[p]
           ELSE result[p] = Returned(1)

\* C10 as amended: as stated, except that update_full_record of an id the
\* table has, with no name in the field map, raises the NOT NULL error and
\* changes nothing
C10_AffectedCountOrNotNull ==
    \A p \in Procs :
        (Done(p) /\ IsRowcountOp(op[p]) /\ op[p].table \in ALLOWED_TABLES)
        => IF op[p].id \notin DOMAIN pre[p][op[p].table]
           THEN result[p] = Returned(0) /\ db = pre[p]
           ELSE IF op[p].name = "update_full_record" /\ op[p].data.name = NULL
           THEN result[p] = ErrNotNull /\ db = pre[p]
           ELSE result[p] = Returned(1)

C10_Witness ==
    \E p \in Procs :
        /\ Done(p) /\ op[p].name = "update_full_record"
        /\ op[p].table \in ALLOWED_TABLES
        /\ pre[p][op[p].table] # EmptyTable
        /\ op[p].id \notin DOMAIN pre[p][op[p].table]
        /\ op[p].data.name = NULL
        /\ result[p] = Returned(0)

----------------------------------------------------------------------------
\* The Record Store functions and the schema

RecordStoreOps == {"get_record", "add_full_record", "add_record",
                   "update_full_record", "delete_record", "list_table"}

\* C11: a Record Store call whose table selector is not exactly reserve,
\* offering or deal raises the invalid-table ValueError at once: it never
\* has a connection, a cursor or a lock, it returns no row and the tables
\* stay as they were
C11_InvalidTableRejected ==
    \A p \in Procs :
        (op[p].name \in RecordStoreOps /\ op[p].table \notin ALLOWED_TABLES)
        => /\ Done(p)
           /\ result[p] = ErrInvalidTable
           /\ conn[p] = "none"
           /\ lock[p] = "none"
           /\ cur[p] = NoCursor
           /\ fetched[p] = << >>
           /\ db = pre[p]

C11_Witness ==
    \E p \in Procs :
        /\ Done(p)
        /\ op[p].name = "get_record"
        /\ op[p].table = "Reserve"
        /\ NRows(db) > 0


IsUpdateOfRow(p) ==
    /\ Done(p)
    /\ op[p].name = "update_full_record"
    /\ op[p].table \in ALLOWED_TABLES
    /\ op[p].id \in DOMAIN pre[p][op[p].table]

\* the tables differ from d at most in the row i of table t
OnlyRowChanged(d, t, i) ==
    /\ \A u \in ALLOWED_TABLES : DOMAIN db[u] = DOMAIN d[u]
    /\ \A k \in RowKeys(d) : k # <<t, i>> => db[k[1]][k[2]] = d[k[1]][k[2]]

\* C12 as stated: update_full_record of an id the table has returns 1 and
\* leaves every non-id field of that row equal to the supplied value, NULL
\* for a field the map lacks; no other row changes
C12_FullOverwrite ==
    \A p \in Procs :
        IsUpdateOfRow(p)
        => /\ result[p] = Returned(1)
           /\ OnlyRowChanged(pre[p], op[p].table, op[p].id)
           /\ \A c \in cols_to_update : db[op[p].table][op[p].id][c] = op[p].data[c]

\* C12 as amended: when the map has a name, update_full_record of an id the
\* table has returns 1 and leaves every non-id field of that row equal to
\* what the column stores for the supplied value (numeric text becomes a
\* real in a REAL column), NULL for a field the map lacks; the row stays the
\* same record under the same id and no other row changes
C12_FullOverwriteAsStored ==
    \A p \in Procs :
        (IsUpdateOfRow(p) /\ op[p].data.name # NULL)
        => /\ result[p] = Returned(1)
           /\ OnlyRowChanged(pre[p], op[p].table, op[p].id)
           /\ db[op[p].table][op[p].id].uid = pre[p][op[p].table][op[p].id].uid
           /\ \A c \in cols_to_update :
                 db[op[p].table][op[p].id][c] = StoreValue(c, op[p].data[c])

\* a full record is overwritten by a bare name while another row exists
C12_Witness ==
    \E p \in Procs :
        /\ IsUpdateOfRow(p)
        /\ result[p] = Returned(1)
        /\ pre[p][op[p].table][op[p].id].area = "7.0"
        /\ db[op[p].table][op[p].id].area = NULL
        /\ db[op[p].table][op[p].id].quantity = NULL
        /\ NRows(db) = 2


\* the moves between tables that the two transfers make
Forward == {<<"reserve", "offering">>, <<"offering", "deal">>}

\* the table that holds the record tagged u
TableOf(d, u) == CHOOSE t \in ALLOWED_TABLES : \E i \in DOMAIN d[t] : d[t][i].uid = u

\* C13: in every step a record that stays in the tables either stays in its
\* table or goes from reserve to offering or from offering to deal, so none
\* goes back and none leaves deal for another table; a record of deal
\* disappears only at the commit of a delete_record on deal
C13_StageOnlyForward ==
    [][/\ \A u \in Uids(db) \cap Uids(db') :
             TableOf(db, u) # TableOf(db', u)
             => <<TableOf(db, u), TableOf(db', u)>> \in Forward
       /\ \A u \in Uids(db) \ Uids(db') :
             TableOf(db, u) = "deal"
             => \E p \in Procs : /\ op[p].name = "delete_record"
                                 /\ op[p].table = "deal"
                                 /\ pc[p] = "commit"
                                 /\ Done(p)']_vars

\* a record has gone from offering to deal while another is still in reserve
C13_Witness ==
    \E p \in Procs :
        /\ MoveReturned(p)
        /\ Dst(p) = "deal"
        /\ db["reserve"] # EmptyTable
        /\ db["offering"] = EmptyTable


IsListing(p) ==
    /\ Done(p)
    /\ op[p].name = "list_table"
    /\ op[p].table \in ALLOWED_TABLES

\* the columns a finished get_record or list_table has selected
SelectedCols(p) ==
    IF op[p].cols # NoCols THEN op[p].cols
    ELSE IF op[p].name = "list_table" THEN DefaultListCols ELSE ALL_COLUMNS

\* the position of column c in the rows a finished call hands back
ColumnAt(p, c) == CHOOSE k \in 1..Len(SelectedCols(p)) : SelectedCols(p)[k] = c

\* C14: list_table of a valid table returns one tuple for every row the
\* table had when it was called and no other, in strictly ascending order
\* of id, each with the row's values; the tables stay as they were
C14_ListAllRowsAscending ==
    \A p \in Procs :
        IsListing(p)
        => LET tab == pre[p][op[p].table]
               at == ColumnAt(p, "id")
               rows == fetched[p]
           IN  /\ result[p].kind = "returned"
               /\ Len(rows) = Cardinality(DOMAIN tab)
               /\ {rows[k][at] : k \in 1..Len(rows)} = DOMAIN tab
               /\ \A j, k \in 1..Len(rows) : j < k => rows[j][at] < rows[k][at]
               /\ \A k \in 1..Len(rows) :
                     \A c \in cols_to_update :
                        (\E n \in 1..Len(SelectedCols(p)) : SelectedCols(p)[n] = c)
                        => rows[k][ColumnAt(p, c)] = tab[rows[k][at]][c]
               /\ db = pre[p]

\* a table of two rows, the larger id inserted first, has been listed
C14_Witness ==
    \E p \in Procs :
        /\ IsListing(p)
        /\ Len(fetched[p]) = 2
        /\ db[op[p].table][fetched[p][2][ColumnAt(p, "id")]].uid
              < db[op[p].table][fetched[p][1][ColumnAt(p, "id")]].uid


\* C15: init_db on a database that has the tables returns without error and
\* leaves every table and every row as it was, and running it again on the
\* result changes nothing either
C15_InitDbIdempotent ==
    \A p \in Procs :
        (Done(p) /\ op[p].name = "init_db")
        => /\ result[p] = Returned(0)
           /\ db = pre[p]
           /\ DOMAIN db = ALLOWED_TABLES
           /\ CreateTables(db) = db

\* init_db has run on tables that hold rows
C15_Witness ==
    \E p \in Procs :
        /\ Done(p)
        /\ op[p].name = "init_db"
        /\ db["deal"] # EmptyTable
        /\ NRows(db) = 2


\* C16: the tuples list_table returns when the caller gives no column list
\* have fewer values than the tables have columns
C16_DefaultListIsSummary ==
    \A p \in Procs :
        (IsListing(p) /\ op[p].cols = NoCols)
        => \A k \in 1..Len(fetched[p]) : Len(fetched[p][k]) < Len(ALL_COLUMNS)


\* the call of p has failed for the cause the exception e reports
RaisedFor(p, e) == Done(p) /\ result[p] = e

\* C17: the exception get_record raises for an invalid table selector is of
\* another class than the one it raises for an id without a row, and the
\* exception a transfer raises for a missing source row is of another class
\* than the one it raises when the storage engine aborts a statement
C17_DistinctErrorKinds ==
    \A p, q \in Procs :
        /\ ( /\ op[p].name = "get_record" /\ RaisedFor(p, ErrInvalidTable)
             /\ op[q].name = "get_record" /\ RaisedFor(q, ErrNotFound) )
           => result[p].exc # result[q].exc
        /\ ( /\ IsMove(op[p]) /\ RaisedFor(p, ErrNotFound)
             /\ IsMove(op[q]) /\ (RaisedFor(q, ErrBusy) \/ RaisedFor(q, ErrStorage)) )
           => result[p].exc # result[q].exc


\* C18: under fair scheduling every call that has started comes to return
\* or raise, and a call that has done so has closed its connection, holds
\* no lock and has no transaction open
C18_EveryCallEnds ==
    \A p \in Procs :
        /\ [](Done(p) => /\ conn[p] # "open"
                         /\ lock[p] = "none"
                         /\ work[p] = EmptyDb)
        /\ (pc[p] \notin {"idle", "done"}) ~> Done(p)

\* both callers are through, one of them after it had to wait for the other
C18_Witness ==
    /\ \A p \in Procs : Done(p) /\ conn[p] = "closed"
    /\ \E p \in Procs : result[p] = ErrBusy
    /\ \E p \in Procs : IsMove(op[p]) /\ result[p].kind = "returned"


\* the table that a transfer neither reads nor writes
Other(p) == CHOOSE t \in ALLOWED_TABLES : t # Src(p) /\ t # Dst(p)

\* C19: a successful transfer takes exactly the row of the given id out of
\* the source table and puts exactly one row, under the returned id, into
\* the destination; the other rows of the source, the rows the destination
\* had and the third table stay as they were, and the tables hold as many
\* rows as before
C19_TransferFrame ==
    \A p \in Procs :
        MoveReturned(p)
        => /\ db[Other(p)] = pre[p][Other(p)]
           /\ DOMAIN db[Src(p)] = DOMAIN pre[p][Src(p)] \ {op[p].id}
           /\ \A i \in DOMAIN db[Src(p)] : db[Src(p)][i] = pre[p][Src(p)][i]
           /\ DOMAIN db[Dst(p)] = DOMAIN pre[p][Dst(p)] \cup {result[p].val}
           /\ \A i \in DOMAIN pre[p][Dst(p)] : db[Dst(p)][i] = pre[p][Dst(p)][i]
           /\ NRows(db) = NRows(pre[p])

\* one of two rows of the source has been transferred
C19_Witness ==
    \E p \in Procs :
        /\ MoveReturned(p)
        /\ Cardinality(DOMAIN pre[p][Src(p)]) = 2
        /\ Cardinality(DOMAIN db[Src(p)]) = 1


\* C20: the id a successful transfer returns is fixed by the ids the
\* destination had: 1 for an empty destination, else the id that follows
\* the largest one
C20_IdFollowsLargest ==
    \A p \in Procs :
        MoveReturned(p)
        => LET ids == DOMAIN pre[p][Dst(p)]
           IN  /\ \A i \in ids : i < result[p].val
               /\ result[p].val = 1 \/ result[p].val - 1 \in ids
               /\ ids = {} => result[p].val = 1

\* a transfer has been given the id of the row that the transfer before it
\* made in the same destination and that delete_record has removed since
C20_Witness ==
    \E p \in Procs :
        /\ MoveReturned(p)
        /\ op[p].freed # NoId
        /\ result[p].val = op[p].freed


----------------------------------------------------------------------------
\* A transfer against update_full_record and delete_record on its source row

\* the call of q writes the source row of the transfer of p
WritesSourceRow(q, p) ==
    /\ q # p
    /\ op[q].name \in {"update_full_record", "delete_record"}
    /\ op[q].table = Src(p)
    /\ op[q].id = op[p].id

\* C21: whatever update_full_record or delete_record does to the source row
\* meanwhile, the step in which a transfer commits finds the source row in
\* the committed tables and leaves in the destination, under the new id,
\* the same record with the non-id fields committed last: no committed
\* update is missing from it and no deleted row comes back
C21_NoLostUpdate ==
    [][\A p \in Procs :
          (IsMove(op[p]) /\ pc[p] = "commit" /\ pc'[p] = "print")
          => /\ op[p].id \in DOMAIN db[Src(p)]
             /\ cur[p].lastrowid \in DOMAIN db'[Dst(p)]
             /\ db'[Dst(p)][cur[p].lastrowid] = db[Src(p)][op[p].id]
             /\ op[p].id \notin DOMAIN db'[Src(p)]]_vars

\* a transfer has committed although an update or delete of its source row,
\* called on the same committed tables, was under way; that call has ended
\* with the busy error or has found no row
C21_Witness ==
    \E p, q \in Procs :
        /\ MoveReturned(p)
        /\ WritesSourceRow(q, p)
        /\ Done(q)
        /\ pre[q] = pre[p]
        /\ op[p].id \in DOMAIN pre[p][Src(p)]
        /\ result[q] \in {ErrBusy, Returned(0)}

====
